---- MODULE Spec2Model ----
(***************************************************************************)
(* A model of fix_photo_metadata.py: PhotoMetadataFixer and main().        *)
(*                                                                         *)
(* The program is sequential.  A run is: main() parses the command line,   *)
(* feeds every "Photo Details*.csv" to process_csv_file (one loop          *)
(* iteration per CSV row), prints the summary, and then, when asked,       *)
(* generates the reports and organizes the files by date.                 *)
(*                                                                         *)
(* Strings are modelled as sequences of tokens (the words and punctuation  *)
(* marks of the text, blanks dropped), a datetime as a record of its       *)
(* fields, a path as the pair <<directory, name>>.                         *)
(***************************************************************************)
EXTENDS Integers, Sequences, FiniteSets, TLC

\* The largest number of CSV rows, over all CSV files, of one run.
MaxRows == 3

\* ------------------------------------------------------------------ helpers

\* f with key k bound to v (a Python dict assignment).
Put(f, k, v) == [x \in (DOMAIN f) \cup {k} |-> IF x = k THEN v ELSE f[x]]

\* The empty dict.
EmptyDict == [x \in {} |-> 0]

RECURSIVE SumSeq(_)
SumSeq(s) == IF s = <<>> THEN 0 ELSE Head(s) + SumSeq(Tail(s))

\* The number of elements of s that satisfy Test.
Count(s, Test(_)) == Len(SelectSeq(s, Test))

\* All sequences over S of length at most n.
SeqsUpTo(S, n) == UNION {[1..k -> S] : k \in 0..n}

\* ------------------------------------------------------------------ dates

\* A datetime value; None is the record NoDate (a datetime is always truthy,
\* so "not creation_date" is exactly "creation_date is None").
NoDate == [year |-> 0, month |-> 0, day |-> 0, hour |-> 0, minute |-> 0]

MonthNames ==
    <<"January", "February", "March", "April", "May", "June", "July",
      "August", "September", "October", "November", "December">>

MonthNumber(name) == CHOOSE i \in 1..12 : MonthNames[i] = name

\* The decimal tokens the model's texts use, and int() of each.
NumTokens ==
    {"0", "00", "1", "3", "5", "11", "12", "13", "16", "27", "31", "59",
     "60", "99", "1999", "2023", "2024"}

IntOf(t) ==
    CASE t \in {"0", "00"} -> 0
      [] t = "1" -> 1
      [] t = "3" -> 3
      [] t = "5" -> 5
      [] t = "11" -> 11
      [] t = "12" -> 12
      [] t = "13" -> 13
      [] t = "16" -> 16
      [] t = "27" -> 27
      [] t = "31" -> 31
      [] t = "59" -> 59
      [] t = "60" -> 60
      [] t = "99" -> 99
      [] t = "1999" -> 1999
      [] t = "2023" -> 2023
      [] t = "2024" -> 2024

\* The number of characters of a decimal token.
Digits(t) ==
    IF t \in {"1999", "2023", "2024"} THEN 4
    ELSE IF t \in {"0", "1", "3", "5"} THEN 1 ELSE 2

\* str.split(','): the pieces of the text between its commas.
RECURSIVE SplitComma(_)
SplitComma(s) ==
    IF \A i \in 1..Len(s) : s[i] # ","
    THEN <<s>>
    ELSE LET k == CHOOSE i \in 1..Len(s) :
                      s[i] = "," /\ \A j \in 1..(i - 1) : s[j] # ","
         IN  <<SubSeq(s, 1, k - 1)>> \o SplitComma(SubSeq(s, k + 1, Len(s)))

\* .strip().replace(' GMT', ''): every GMT that follows a blank goes; after
\* strip() the first token of the piece has no blank before it.
DropGMT(piece) ==
    LET Keep(i) == i = 1 \/ piece[i] # "GMT"
        RECURSIVE Go(_)
        Go(i) == IF i > Len(piece) THEN <<>>
                 ELSE (IF Keep(i) THEN <<piece[i]>> ELSE <<>>) \o Go(i + 1)
    IN  Go(1)

\* datetime.strptime(text, '%Y %I:%M %p'): %Y is four digits, %I is 1..12,
\* %M is 0..59, %p is AM or PM.  The fields the format does not name keep
\* strptime's defaults: month 1, day 1.
StrptimeMatches(t) ==
    /\ Len(t) = 5
    /\ t[1] \in NumTokens /\ Digits(t[1]) = 4
    /\ t[2] \in NumTokens /\ IntOf(t[2]) \in 1..12
    /\ t[3] = ":"
    /\ t[4] \in NumTokens /\ IntOf(t[4]) \in 0..59
    /\ t[5] \in {"AM", "PM"}

Strptime(t) ==
    [year   |-> IntOf(t[1]),
     month  |-> 1,
     day    |-> 1,
     hour   |-> (IntOf(t[2]) % 12) + (IF t[5] = "PM" THEN 12 ELSE 0),
     minute |-> IntOf(t[4])]

\* parse_apple_date without its log line: does the try block raise, and the
\* datetime it returns when it does not.
ParseRaises(date_string) ==
    \/ Len(SplitComma(date_string)) < 2
    \/ ~StrptimeMatches(DropGMT(SplitComma(date_string)[2]))

ParseValue(date_string) ==
    IF ParseRaises(date_string)
    THEN NoDate
    ELSE Strptime(DropGMT(SplitComma(date_string)[2]))

\* ------------------------------------------------------------------ inputs

\* The date strings of the model's CSV rows: two of Apple's format, one that
\* holds no comma.
DateSep2023 ==
    <<"Saturday", "September", "16", ",", "2023", "5", ":", "27", "PM", "GMT">>
DateJan2024 ==
    <<"Monday", "January", "1", ",", "2024", "12", ":", "00", "AM", "GMT">>
DateBad == <<"unknown">>

\* The export directories main() finds, sorted, each with its Photos
\* directory and one "Photo Details.csv" in it.
Directories == <<"Teil 1", "Teil 2">>
NumDirs == Len(Directories)

\* The files on disk.  Every Photos directory holds IMG_1.JPG and IMG_2.JPG;
\* IMG_2.JPG belongs to another user, so os.utime on it raises
\* PermissionError; IMG_9.JPG is in no directory.
Names == {"IMG_1.JPG", "IMG_2.JPG", "IMG_9.JPG"}
OnDisk == {<<Directories[d], n>> : d \in 1..NumDirs, n \in {"IMG_1.JPG", "IMG_2.JPG"}}
UtimeRaises(path) == path[2] = "IMG_2.JPG"
SizeOf(path) == IF path[2] = "IMG_1.JPG" THEN 1000 ELSE 2000

\* The modification time the export left on every file.
ExportTime == [year |-> 2025, month |-> 6, day |-> 1, hour |-> 9, minute |-> 30]

\* A file's content is named after the file it was first stored as.
InitFS ==
    [files   |-> [p \in OnDisk |-> [content |-> p, mtime |-> ExportTime]],
     dirs    |-> {},
     tree    |-> EmptyDict,
     reports |-> EmptyDict]

Row(n, c, f, h, d, date, v) ==
    [imgName |-> n, fileChecksum |-> c, favorite |-> f, hidden |-> h,
     deleted |-> d, originalCreationDate |-> date, viewCount |-> v]

\* A row cut short after fileChecksum: csv.DictReader gives None for the
\* columns that are missing.  None == 'yes' is False, None.split raises and
\* int(None) raises, as for the empty text that stands for None here.
ShortRow == Row("IMG_1.JPG", "c1", "", "", "", <<>>, "")

\* The rows a CSV file of the model may hold: rows for a file that is there
\* (IMG_1), for one whose timestamp cannot be set (IMG_2) and for one that is
\* missing (IMG_9), with either checksum, every flag, parseable and
\* unparseable dates, and a viewCount that is or is not an integer.
RowDomain ==
    { ShortRow } \cup
    { Row("IMG_1.JPG", "c1", "no",  "no",  "no",  DateSep2023, "3"),
      Row("IMG_1.JPG", "c1", "yes", "no",  "yes", DateJan2024, "3"),
      Row("IMG_1.JPG", "c2", "no",  "no",  "no",  DateSep2023, "3"),
      Row("IMG_2.JPG", "c1", "no",  "yes", "no",  DateSep2023, "3"),
      Row("IMG_2.JPG", "c2", "yes", "yes", "no",  DateBad,     "3"),
      Row("IMG_9.JPG", "c1", "yes", "yes", "yes", DateSep2023, "3"),
      Row("IMG_9.JPG", "c2", "no",  "no",  "no",  DateBad,     "abc"),
      Row("IMG_1.JPG", "c2", "no",  "no",  "yes", DateSep2023, "abc") }

\* int(text) raises ValueError unless the text is a decimal literal.
IntRaises(text) == text \notin NumTokens

\* The CSV files of a run: one per directory, MaxRows rows in all.
CsvInputs ==
    UNION { { <<a, b>> : a \in [1..n[1] -> RowDomain], b \in [1..n[2] -> RowDomain] } :
            n \in {m \in (0..MaxRows) \X (0..MaxRows) : m[1] + m[2] <= MaxRows} }

\* ------------------------------------------------------------------ state

VARIABLES
    args,         \* the parsed command line: dry_run, single_dir, reports, organize
    fixer,        \* the PhotoMetadataFixer: dry_run, stats, duplicates, processed_files
    fs,           \* the file system: files, created directories, organized tree, reports
    log,          \* the WARNING and ERROR lines log() has printed, in order
    csv,          \* csv[d]: the rows of the CSV file of directory d
    pc,           \* where main() is
    dir_i,        \* the directory whose CSV file is being processed
    pos,          \* pos[d]: the next row the reader of csv[d] yields
    summary,      \* what print_summary printed
    found,        \* what find_duplicates returned to generate_reports
    date_string,  \* parse_apple_date's argument, when it is run on its own
    date_result   \* and what it returned

vars ==
    <<args, fixer, fs, log, csv, pc, dir_i, pos, summary, found,
      date_string, date_result>>

\* The fixer, the file system and the log: what the methods read and write.
World == [fixer |-> fixer, fs |-> fs, log |-> log]

\* __init__.
NewFixer(dry_run) ==
    [dry_run |-> dry_run,
     stats |-> [files_processed |-> 0, timestamps_fixed |-> 0,
                duplicates_found |-> 0, deleted_files |-> 0,
                favorites |-> 0, hidden_files |-> 0, errors |-> <<>>],
     duplicates |-> EmptyDict,
     processed_files |-> <<>>]

NewWorld(dry_run) == [fixer |-> NewFixer(dry_run), fs |-> InitFS, log |-> <<>>]

\* log(): the line goes to standard output; INFO lines are not kept.
Log(w, message, level) ==
    IF level = "INFO" THEN w
    ELSE [w EXCEPT !.log = Append(@, [level |-> level, message |-> message])]

\* self.stats['errors'].append(error_msg).
AddError(w, error_msg) ==
    [w EXCEPT !.fixer.stats.errors = Append(@, error_msg)]

\* parse_apple_date: the datetime, or None and one ERROR line.
ParseAppleDate(w, ds) ==
    IF ParseRaises(ds)
    THEN [w |-> Log(w, <<"Error parsing date", ds>>, "ERROR"), ret |-> NoDate]
    ELSE [w |-> w, ret |-> ParseValue(ds)]

\* set_file_timestamps whose dry-run branch returns False.
SetFileTimestampsDryFalse(w, file_path, creation_date) ==
    IF creation_date = NoDate
    THEN [w |-> w, ret |-> FALSE]
    ELSE IF w.fixer.dry_run
    THEN [w |-> Log(w, <<"DRY RUN: Would set", file_path>>, "INFO"), ret |-> FALSE]
    ELSE IF UtimeRaises(file_path)
    THEN LET error_msg == <<"Failed to set timestamp for", file_path>>
         IN  [w |-> AddError(Log(w, error_msg, "ERROR"), error_msg), ret |-> FALSE]
    ELSE [w |-> Log([w EXCEPT !.fs.files[file_path].mtime = creation_date],
                    <<"Fixed timestamp for", file_path>>, "INFO"),
          ret |-> TRUE]

\* set_file_timestamps with the dry-run return left out.
SetFileTimestampsUnguarded(w, file_path, creation_date) ==
    IF creation_date = NoDate
    THEN [w |-> w, ret |-> FALSE]
    ELSE IF UtimeRaises(file_path)
    THEN LET error_msg == <<"Failed to set timestamp for", file_path>>
         IN  [w |-> AddError(Log(w, error_msg, "ERROR"), error_msg), ret |-> FALSE]
    ELSE [w |-> Log([w EXCEPT !.fs.files[file_path].mtime = creation_date],
                    <<"Fixed timestamp for", file_path>>, "INFO"),
          ret |-> TRUE]

\* set_file_timestamps.  sys.platform is not darwin; datetime.timestamp()
\* does not raise for the years of the model.
SetFileTimestamps(w, file_path, creation_date) ==
    IF creation_date = NoDate
    THEN [w |-> w, ret |-> FALSE]
    ELSE IF w.fixer.dry_run
    THEN [w |-> Log(w, <<"DRY RUN: Would set", file_path>>, "INFO"), ret |-> TRUE]
    ELSE IF UtimeRaises(file_path)
    THEN LET error_msg == <<"Failed to set timestamp for", file_path>>
         IN  [w |-> AddError(Log(w, error_msg, "ERROR"), error_msg), ret |-> FALSE]
    ELSE [w |-> Log([w EXCEPT !.fs.files[file_path].mtime = creation_date],
                    <<"Fixed timestamp for", file_path>>, "INFO"),
          ret |-> TRUE]

\* ------------------------------------------------------------------ ingestion

\* The "Update stats" block with its three ifs chained as if / elif / elif.
UpdateStatsElif(stats, favorite, hidden, deleted) ==
    [stats EXCEPT
        !.files_processed = @ + 1,
        !.favorites = IF favorite THEN @ + 1 ELSE @,
        !.hidden_files = IF ~favorite /\ hidden THEN @ + 1 ELSE @,
        !.deleted_files = IF ~favorite /\ ~hidden /\ deleted THEN @ + 1 ELSE @]

\* The "Update stats" block of process_csv_file.
UpdateStats(stats, favorite, hidden, deleted) ==
    [stats EXCEPT
        !.files_processed = @ + 1,
        !.favorites = IF favorite THEN @ + 1 ELSE @,
        !.hidden_files = IF hidden THEN @ + 1 ELSE @,
        !.deleted_files = IF deleted THEN @ + 1 ELSE @]

\* self.duplicates[checksum] of the defaultdict(list).
Group(duplicates, checksum) ==
    IF checksum \in DOMAIN duplicates THEN duplicates[checksum] ELSE <<>>

\* One iteration of the loop of process_csv_file over the rows of a CSV file:
\* the world after it, and whether it raised (int() of viewCount is the one
\* statement of the body that raises on the model's rows).
ProcessRow(w, photos_dir, row) ==
    LET img_name == row.imgName
        file_checksum == row.fileChecksum
        favorite == row.favorite = "yes"
        hidden == row.hidden = "yes"
        deleted == row.deleted = "yes"
        parsed == ParseAppleDate(w, row.originalCreationDate)
        original_date == parsed.ret
        w1 == parsed.w
        file_path == <<photos_dir, img_name>>
    IN  IF IntRaises(row.viewCount)
        THEN [w |-> w1, raised |-> TRUE]
        ELSE IF file_path \notin DOMAIN w1.fs.files
        THEN [w |-> Log(w1, <<"File not found", file_path>>, "WARNING"),
              raised |-> FALSE]
        ELSE
          LET file_info ==
                  [path |-> file_path, name |-> img_name,
                   checksum |-> file_checksum, favorite |-> favorite,
                   hidden |-> hidden, deleted |-> deleted,
                   original_date |-> original_date,
                   view_count |-> IntOf(row.viewCount),
                   size |-> SizeOf(file_path)]
              w2 == [w1 EXCEPT
                        !.fixer.processed_files = Append(@, file_info),
                        !.fixer.duplicates =
                            Put(@, file_checksum,
                                Append(Group(@, file_checksum), file_info)),
                        !.fixer.stats = UpdateStats(@, favorite, hidden, deleted)]
              set == IF original_date # NoDate
                     THEN SetFileTimestamps(w2, file_path, original_date)
                     ELSE [w |-> w2, ret |-> FALSE]
          IN  [w |-> IF set.ret
                     THEN [set.w EXCEPT !.fixer.stats.timestamps_fixed = @ + 1]
                     ELSE set.w,
               raised |-> FALSE]

\* The except clause of process_csv_file.
CsvError(w, csv_path) ==
    LET error_msg == <<"Error processing CSV", csv_path>>
    IN  AddError(Log(w, error_msg, "ERROR"), error_msg)

\* process_csv_file from row i on: the loop ends with the file, or with the
\* first row that raises.
RECURSIVE ProcessRows(_, _, _, _)
ProcessRows(w, photos_dir, rows, i) ==
    IF i > Len(rows) THEN w
    ELSE LET r == ProcessRow(w, photos_dir, rows[i])
         IN  IF r.raised THEN CsvError(r.w, photos_dir)
             ELSE ProcessRows(r.w, photos_dir, rows, i + 1)

\* The directories a run processes: the one named, or all.
LastDir(single_dir) == IF single_dir THEN 1 ELSE NumDirs

\* The loops of main() and process_all_directories over the CSV files, from
\* directory d on.
RECURSIVE ProcessFiles(_, _, _, _)
ProcessFiles(w, files, d, last) ==
    IF d > last THEN w
    ELSE ProcessFiles(ProcessRows(w, Directories[d], files[d], 1), files, d + 1, last)

\* ------------------------------------------------------------------ duplicates

\* The filter of find_duplicates with len(v) > 0.
IsDuplicateGroupAtLeastOne(v) == Len(v) > 0

\* The filter of find_duplicates.
IsDuplicateGroup(v) == Len(v) > 1

\* find_duplicates: the groups, and the counter it sets.
FindDuplicates(w) ==
    LET all == w.fixer.duplicates
        duplicates == [k \in {c \in DOMAIN all : IsDuplicateGroup(all[c])} |-> all[k]]
    IN  [w |-> [w EXCEPT !.fixer.stats.duplicates_found = Cardinality(DOMAIN duplicates)],
         ret |-> duplicates]

\* ------------------------------------------------------------------ outputs

\* The directories --reports and --organize name.
ReportsDir == "reports"
OrganizeDir == "organized"

\* A directory below an output directory: f"{date.year}/{date.month:02d}"
\* is kept as the pair of numbers it prints; the output directory itself
\* has 0, 0.
DirPath(root, year, month) == <<root, year, month>>
FilePath(root, year, month, name) == <<root, year, month, name>>

\* Path(name).suffix.lower() of the model's file names.
SuffixLower(name) == ".jpg"

HasDate(file_info) == file_info.original_date # NoDate
IsFavorite(file_info) == file_info.favorite
IsDeleted(file_info) == file_info.deleted

\* organize_by_date from catalog entry i on.
RECURSIVE OrganizeFrom(_, _, _)
OrganizeFrom(w, output_dir, i) ==
    IF i > Len(w.fixer.processed_files) THEN w
    ELSE
      LET file_info == w.fixer.processed_files[i]
          date == file_info.original_date
          target_dir == DirPath(output_dir, date.year, date.month)
          target_file == FilePath(output_dir, date.year, date.month, file_info.name)
      IN  IF ~HasDate(file_info)
          THEN OrganizeFrom(w, output_dir, i + 1)
          ELSE IF w.fixer.dry_run
          THEN OrganizeFrom(Log(w, <<"DRY RUN: Would move", file_info.path>>, "INFO"),
                            output_dir, i + 1)
          ELSE OrganizeFrom(
                 [w EXCEPT
                    !.fs.dirs = @ \cup {target_dir},
                    !.fs.tree = Put(@, target_file, w.fs.files[file_info.path])],
                 output_dir, i + 1)

\* organize_by_date: shutil.copy2 copies the content and the times.
OrganizeByDate(w, output_dir) ==
    OrganizeFrom(
        IF ~w.fixer.dry_run
        THEN [w EXCEPT !.fs.dirs = @ \cup {DirPath(output_dir, 0, 0)}]
        ELSE w,
        output_dir, 1)

\* json.dump into output_dir/name.
WriteJson(w, output_dir, name, document) ==
    [w EXCEPT !.fs.reports = Put(@, <<output_dir, name>>, document)]

\* generate_reports: the world after it and what find_duplicates returned.
\* total_size is the sum of the sizes in bytes (the report divides it by
\* 1024**3).
GenerateReports(w, output_dir) ==
    LET dry == w.fixer.dry_run
        files == w.fixer.processed_files
        w1 == IF ~dry THEN [w EXCEPT !.fs.dirs = @ \cup {DirPath(output_dir, 0, 0)}]
              ELSE w
        InYear(y) == LET T(f) == HasDate(f) /\ f.original_date.year = y
                     IN  Count(files, T)
        OfType(x) == LET T(f) == SuffixLower(f.name) = x IN Count(files, T)
        year_counts ==
            [y \in {files[i].original_date.year :
                        i \in {j \in 1..Len(files) : HasDate(files[j])}} |-> InYear(y)]
        file_type_counts ==
            [x \in {SuffixLower(files[i].name) : i \in 1..Len(files)} |-> OfType(x)]
        detailed_stats ==
            w1.fixer.stats @@
            [years |-> year_counts, file_types |-> file_type_counts,
             total_size |-> SumSeq([i \in 1..Len(files) |-> files[i].size])]
        w2 == IF ~dry
              THEN WriteJson(w1, output_dir, "photo_statistics.json", detailed_stats)
              ELSE w1
        fd == FindDuplicates(w2)
        duplicates == fd.ret
        w3 == IF DOMAIN duplicates # {} /\ ~dry
              THEN WriteJson(fd.w, output_dir, "duplicates.json", duplicates)
              ELSE fd.w
        favorites == SelectSeq(files, IsFavorite)
        w4 == IF favorites # <<>> /\ ~dry
              THEN WriteJson(w3, output_dir, "favorites.json", favorites)
              ELSE w3
        deleted == SelectSeq(files, IsDeleted)
        w5 == IF deleted # <<>> /\ ~dry
              THEN WriteJson(w4, output_dir, "deleted_files.json", deleted)
              ELSE w4
    IN  [w |-> w5, ret |-> duplicates]

\* print_summary shows the first 10 errors.
SummaryPreview == 10

NoSummary ==
    [printed |-> FALSE, files_processed |-> 0, timestamps_fixed |-> 0,
     duplicates_found |-> 0, favorites |-> 0, hidden_files |-> 0,
     deleted_files |-> 0, errors |-> 0, shown |-> <<>>]

\* print_summary: the numbers it prints.
SummaryOf(stats) ==
    [printed |-> TRUE,
     files_processed |-> stats.files_processed,
     timestamps_fixed |-> stats.timestamps_fixed,
     duplicates_found |-> stats.duplicates_found,
     favorites |-> stats.favorites,
     hidden_files |-> stats.hidden_files,
     deleted_files |-> stats.deleted_files,
     errors |-> Len(stats.errors),
     shown |-> SubSeq(stats.errors, 1,
                      IF Len(stats.errors) < SummaryPreview
                      THEN Len(stats.errors) ELSE SummaryPreview)]

\* ------------------------------------------------------------------ the run

SetWorld(w) == fixer' = w.fixer /\ fs' = w.fs /\ log' = w.log

Init ==
    /\ args \in [dry_run : BOOLEAN, single_dir : BOOLEAN,
                 reports : {"unread"}, organize : {"unread"}]
    /\ csv \in {c \in CsvInputs : args.single_dir => c[2] = <<>>}
    /\ fixer = NewFixer(args.dry_run)
    /\ fs = InitFS
    /\ log = <<>>
    /\ pc = "ingest"
    /\ dir_i = 1
    /\ pos = [d \in 1..NumDirs |-> 1]
    /\ summary = NoSummary
    /\ found = EmptyDict
    /\ date_string = <<>>
    /\ date_result = NoDate

\* process_csv_file returned: on to the next CSV file, or to print_summary.
NextFile ==
    IF dir_i < LastDir(args.single_dir)
    THEN dir_i' = dir_i + 1 /\ pc' = pc
    ELSE dir_i' = dir_i /\ pc' = "summary"

AtRow == pc = "ingest" /\ pos[dir_i] <= Len(csv[dir_i])
CurrentRow == csv[dir_i][pos[dir_i]]

\* One row of the current CSV file, processed to the end of the loop body.
CsvRow ==
    /\ AtRow
    /\ LET r == ProcessRow(World, Directories[dir_i], CurrentRow)
       IN  ~r.raised /\ SetWorld(r.w)
    /\ pos' = [pos EXCEPT ![dir_i] = @ + 1]
    /\ UNCHANGED <<args, csv, pc, dir_i, summary, found, date_string, date_result>>

\* One row whose processing raises: the except clause runs and
\* process_csv_file returns.
CsvRowRaises ==
    /\ AtRow
    /\ LET r == ProcessRow(World, Directories[dir_i], CurrentRow)
       IN  r.raised /\ SetWorld(CsvError(r.w, Directories[dir_i]))
    /\ pos' = [pos EXCEPT ![dir_i] = @ + 1]
    /\ NextFile
    /\ UNCHANGED <<args, csv, summary, found, date_string, date_result>>

\* The reader is exhausted: process_csv_file returns.
CsvEnd ==
    /\ pc = "ingest" /\ pos[dir_i] > Len(csv[dir_i])
    /\ NextFile
    /\ UNCHANGED <<args, fixer, fs, log, csv, pos, summary, found,
                   date_string, date_result>>

\* print_summary, at the end of process_all_directories or of the
\* --single-dir branch of main().
PrintSummary ==
    /\ pc = "summary"
    /\ summary' = SummaryOf(fixer.stats)
    /\ pc' = "reports"
    /\ UNCHANGED <<args, fixer, fs, log, csv, dir_i, pos, found,
                   date_string, date_result>>

\* main(): --reports was given.
MainReports ==
    /\ pc = "reports"
    /\ args' = [args EXCEPT !.reports = "set"]
    /\ LET g == GenerateReports(World, ReportsDir)
       IN  SetWorld(g.w) /\ found' = g.ret
    /\ pc' = "organize"
    /\ UNCHANGED <<csv, dir_i, pos, summary, date_string, date_result>>

\* main(): --reports was not given.
MainNoReports ==
    /\ pc = "reports"
    /\ args' = [args EXCEPT !.reports = "unset"]
    /\ pc' = "organize"
    /\ UNCHANGED <<fixer, fs, log, csv, dir_i, pos, summary, found,
                   date_string, date_result>>

\* main(): --organize was given.
MainOrganize ==
    /\ pc = "organize"
    /\ args' = [args EXCEPT !.organize = "set"]
    /\ SetWorld(OrganizeByDate(World, OrganizeDir))
    /\ pc' = "done"
    /\ UNCHANGED <<csv, dir_i, pos, summary, found, date_string, date_result>>

\* main(): --organize was not given.
MainNoOrganize ==
    /\ pc = "organize"
    /\ args' = [args EXCEPT !.organize = "unset"]
    /\ pc' = "done"
    /\ UNCHANGED <<fixer, fs, log, csv, dir_i, pos, summary, found,
                   date_string, date_result>>

Next ==
    \/ CsvRow
    \/ CsvRowRaises
    \/ CsvEnd
    \/ PrintSummary
    \/ MainReports
    \/ MainNoReports
    \/ MainOrganize
    \/ MainNoOrganize

Spec == Init /\ [][Next]_vars

\* main() as one function of its inputs: the world when it returns.
MainRun(dry_run, single_dir, reports, organize, files) ==
    LET w1 == ProcessFiles(NewWorld(dry_run), files, 1, LastDir(single_dir))
        w2 == IF reports THEN GenerateReports(w1, ReportsDir).w ELSE w1
    IN  IF organize THEN OrganizeByDate(w2, OrganizeDir) ELSE w2

\* ------------------------------------------------------------------ parse_apple_date on its own

Weekdays == {"Saturday", "Monday"}

\* Date strings of Apple's format, 'Weekday Month Day,Year Hour:Minute AM/PM GMT'.
AppleDates ==
    { <<wd, mo, dy, ",", yr, hr, ":", mi, ap, "GMT">> :
        wd \in Weekdays, mo \in {"January", "September", "December"},
        dy \in {"1", "16", "31"}, yr \in {"1999", "2023"},
        hr \in {"12", "5", "11"}, mi \in {"00", "27", "59"}, ap \in {"AM", "PM"} }

\* Other texts: no comma, a second comma, hour 13, minute 60, a two-digit
\* year, no time zone, an empty string.
OtherDates ==
    { <<"unknown">>,
      <<>>,
      <<"Saturday", ",", "September", "16", ",", "2023", "5", ":", "27", "PM", "GMT">>,
      <<"Saturday", "September", "16", ",", "2023", "13", ":", "27", "PM", "GMT">>,
      <<"Saturday", "September", "16", ",", "2023", "5", ":", "60", "PM", "GMT">>,
      <<"Saturday", "September", "16", ",", "99", "5", ":", "27", "PM", "GMT">>,
      <<"Saturday", "September", "16", ",", "2023", "5", ":", "27", "PM">> }

InitDate ==
    /\ date_string \in AppleDates \cup OtherDates
    /\ date_result = NoDate
    /\ pc = "parse"
    /\ args = [dry_run |-> FALSE, single_dir |-> TRUE,
               reports |-> "unread", organize |-> "unread"]
    /\ csv = <<<<>>, <<>>>>
    /\ fixer = NewFixer(FALSE)
    /\ fs = InitFS
    /\ log = <<>>
    /\ dir_i = 1
    /\ pos = [d \in 1..NumDirs |-> 1]
    /\ summary = NoSummary
    /\ found = EmptyDict

\* fixer.parse_apple_date(date_string).
ParseDateCall ==
    /\ pc = "parse"
    /\ LET p == ParseAppleDate(World, date_string)
       IN  SetWorld(p.w) /\ date_result' = p.ret
    /\ pc' = "parsed"
    /\ UNCHANGED <<args, csv, dir_i, pos, summary, found, date_string>>

NextDate == ParseDateCall

SpecDate == InitDate /\ [][NextDate]_vars

\* ------------------------------------------------------------------ properties

Checksums == {"c1", "c2"}

Catalog == fixer.processed_files

\* The directories whose CSV file the run processes.
Processed == 1..LastDir(args.single_dir)

\* Ingestion is over: every process_csv_file call has returned.
Ingested == pc \in {"summary", "reports", "organize", "done"}

FileExists(d, row) == <<Directories[d], row.imgName>> \in DOMAIN fs.files

\* A row is malformed when a column cannot be read as its type.
Malformed(row) == IntRaises(row.viewCount)

\* The rows that are well-formed and name a file that exists.
DueRows(d) == {j \in 1..Len(csv[d]) : ~Malformed(csv[d][j]) /\ FileExists(d, csv[d][j])}

EntriesOf(d, row) ==
    LET T(f) == f.path = <<Directories[d], row.imgName>> /\ f.checksum = row.fileChecksum
    IN  Count(Catalog, T)

\* C1: a malformed row does not abort the rest of its CSV file: once
\* ingestion is over, every well-formed row that names an existing file, also
\* one that comes after a malformed row, has its catalog entry and has been
\* counted in files_processed.
C1_MalformedRowDoesNotAbort ==
    Ingested =>
        /\ \A d \in Processed : \A j \in DueRows(d) : EntriesOf(d, csv[d][j]) > 0
        /\ fixer.stats.files_processed =
               SumSeq([d \in 1..NumDirs |->
                          IF d \in Processed THEN Cardinality(DueRows(d)) ELSE 0])

Counters(stats) ==
    <<stats.files_processed, stats.timestamps_fixed, stats.duplicates_found,
      stats.deleted_files, stats.favorites, stats.hidden_files>>

\* C2: a row whose imgName is no file of the photos directory adds no catalog
\* entry and nothing to the checksum multimap, moves no counter, and the loop
\* goes on with the next row of the same file.
C2_MissingFileRowSkipped ==
    [][(AtRow /\ ~FileExists(dir_i, CurrentRow)) =>
          /\ fixer'.processed_files = fixer.processed_files
          /\ fixer'.duplicates = fixer.duplicates
          /\ Counters(fixer'.stats) = Counters(fixer.stats)
          /\ pc' = "ingest" /\ dir_i' = dir_i
          /\ pos'[dir_i] = pos[dir_i] + 1]_vars

IsAppleDate(s) ==
    /\ Len(s) = 10
    /\ s[1] \in Weekdays
    /\ \E i \in 1..12 : MonthNames[i] = s[2]
    /\ s[3] \in NumTokens /\ IntOf(s[3]) \in 1..31
    /\ s[4] = ","
    /\ s[5] \in NumTokens /\ Digits(s[5]) = 4
    /\ s[6] \in NumTokens /\ IntOf(s[6]) \in 1..12
    /\ s[7] = ":"
    /\ s[8] \in NumTokens /\ Digits(s[8]) = 2 /\ IntOf(s[8]) \in 0..59
    /\ s[9] \in {"AM", "PM"}
    /\ s[10] = "GMT"

\* The instant an Apple date string writes.
Written(s) ==
    [year   |-> IntOf(s[5]),
     month  |-> MonthNumber(s[2]),
     day    |-> IntOf(s[3]),
     hour   |-> (IntOf(s[6]) % 12) + (IF s[9] = "PM" THEN 12 ELSE 0),
     minute |-> IntOf(s[8])]

\* C3: for a date string of Apple's format parse_apple_date returns the
\* instant whose year, month, day, hour and minute are those of the string.
C3_ParsedDateIsWrittenDate ==
    (pc = "parsed" /\ IsAppleDate(date_string)) => date_result = Written(date_string)

\* C4: every recovered error (every WARNING and ERROR line of the log) is in
\* stats['errors'], in the order it happened, and the error count of the
\* summary is the number of recovered errors.
C4_EveryRecoveredErrorListed ==
    /\ fixer.stats.errors = [i \in 1..Len(log) |-> log[i].message]
    /\ summary.printed => summary.errors = Len(log)

\* C5: in a dry run the file system stays as it was: no timestamp changes, no
\* directory is made, no file is copied, no report is written.
C5_DryRunLeavesFilesystem == args.dry_run => fs = InitFS

C5_Witness ==
    /\ args.dry_run /\ pc = "done"
    /\ args.reports = "set" /\ args.organize = "set"
    /\ fixer.stats.timestamps_fixed > 0
    /\ DOMAIN found # {}
    /\ fixer.stats.favorites > 0 /\ fixer.stats.deleted_files > 0

RunStats(dry_run) ==
    MainRun(dry_run, args.single_dir, args.reports = "set",
            args.organize = "set", csv).fixer.stats

IsTimestampFailure(error_msg) == error_msg[1] = "Failed to set timestamp for"
NotTimestampFailure(error_msg) == ~IsTimestampFailure(error_msg)

WithChecksum(c) == LET T(f) == f.checksum = c IN SelectSeq(Catalog, T)

\* The checksum groups of the catalog that hold two entries or more.
DuplicateGroups ==
    [c \in {k \in Checksums : Len(WithChecksum(k)) >= 2} |-> WithChecksum(c)]

\* C7: find_duplicates returns the checksum groups of the catalog that have
\* two or more entries, each with all the catalog entries of its checksum.
C7_FindDuplicatesExact == args.reports = "set" => found = DuplicateGroups

C7_Witness ==
    /\ args.reports = "set"
    /\ \E c \in Checksums : Len(WithChecksum(c)) >= 2 /\ c \in DOMAIN found
    /\ \E c \in Checksums : Len(WithChecksum(c)) = 1 /\ c \notin DOMAIN found

TargetOf(f) ==
    FilePath(OrganizeDir, f.original_date.year, f.original_date.month, f.name)

\* C8: outside a dry run, after organize_by_date a second run of it leaves
\* the organized tree as it is, every catalog entry with a capture date has
\* its content at outputRoot/year/month/name, and every source file is there
\* with its content.
C8_OrganizeIdempotentCopy ==
    (args.organize = "set" /\ ~args.dry_run) =>
        /\ OrganizeByDate(World, OrganizeDir).fs.tree = fs.tree
        /\ \A i \in 1..Len(Catalog) :
              HasDate(Catalog[i]) =>
                  /\ TargetOf(Catalog[i]) \in DOMAIN fs.tree
                  /\ fs.tree[TargetOf(Catalog[i])].content =
                         InitFS.files[Catalog[i].path].content
        /\ \A p \in OnDisk :
              p \in DOMAIN fs.files /\ fs.files[p].content = InitFS.files[p].content

StatisticsFile == <<ReportsDir, "photo_statistics.json">>

\* C9: the duplicate-group counter that print_summary prints, and the one
\* generate_reports writes to photo_statistics.json, is the number of
\* checksum groups with two or more catalog entries.
C9_DuplicateCounterReported ==
    /\ summary.printed =>
           summary.duplicates_found = Cardinality(DOMAIN DuplicateGroups)
    /\ StatisticsFile \in DOMAIN fs.reports =>
           fs.reports[StatisticsFile].duplicates_found =
               Cardinality(DOMAIN DuplicateGroups)

\* The sum of the lengths of the lists f holds under the keys K.
RECURSIVE SumLens(_, _)
SumLens(f, K) ==
    IF K = {} THEN 0
    ELSE LET k == CHOOSE x \in K : TRUE
         IN  Len(f[k]) + SumLens(f, K \ {k})

\* C10: between any two loop iterations and after every process_csv_file
\* call the counters agree with the catalog and the checksum multimap.
C10_RunStateConsistent ==
    LET stats == fixer.stats
        HasHidden(f) == f.hidden
        keys == DOMAIN fixer.duplicates
    IN  /\ stats.files_processed = Len(Catalog)
        /\ stats.files_processed = SumLens(fixer.duplicates, keys)
        /\ stats.favorites = Count(Catalog, IsFavorite)
        /\ stats.hidden_files = Count(Catalog, HasHidden)
        /\ stats.deleted_files = Count(Catalog, IsDeleted)
        /\ stats.timestamps_fixed <= Count(Catalog, HasDate)

C10_Witness ==
    /\ Ingested
    /\ \E i \in 1..Len(fixer.stats.errors) :
           fixer.stats.errors[i][1] = "Error processing CSV"
    /\ fixer.stats.favorites > 0 /\ fixer.stats.deleted_files > 0
    /\ fixer.stats.hidden_files > 0
    /\ fixer.stats.timestamps_fixed < Count(Catalog, HasDate)
====
